---- MODULE Spec2Model ----
(***************************************************************************)
(* Model of the `solve` sub-command of batgpt (src/src/main.rs).           *)
(*                                                                         *)
(* The main task fetches and solves every requested problem in turn,       *)
(* stores the solutions in a HashMap, then, for every configured student,  *)
(* builds a cookie-bearing client, logs in and spawns one tokio task per   *)
(* entry of the solution map.  Finally it awaits the join handles in the   *)
(* order they were pushed.  Spawned tasks run concurrently with the main   *)
(* task; when main returns the tokio runtime is dropped and every task     *)
(* that has not finished is dropped with it.                               *)
(***************************************************************************)
EXTENDS Integers, Sequences, FiniteSets, TLC

\* ---- bounds of the model ----
MaxInput == 4        \* requested problems plus configured students
MaxTasks == 4        \* students times distinct problems: the tasks a run spawns

\* ---- small value domains ----
ProbIds == {"p1", "p2"}          \* problem identifiers given on the command line
CuNames == {"alice", "bob"}      \* cunames found in the config
Codes == {"s1", "s2"}            \* texts the completion service may return
NodeStates == {"missing", "empty", "text"}   \* what a selector finds in a page

VARIABLES
    problems,     \* the `prob` arguments, in order
    students,     \* config.students, in order (cuname of each entry)
    pc,           \* position of the main task
    i,            \* index of the problem being solved
    j,            \* index of the student being served
    k,            \* index of the join handle being awaited
    solutions,    \* the HashMap prob -> solution
    published,    \* shared_solutions (Arc), empty until created
    client,       \* the client of the current student iteration (0 = parse_client)
    remaining,    \* entries of the cloned map the spawn loop has not visited yet
    handles,      \* the vector of join handles: what each spawned task captured
    ustate,       \* state of the task behind each handle
    outcome,      \* how main ended: "running", "ok", "err", "panic"
    failure,      \* which step made main fail
    fetchLog,     \* problems for which a GET was sent, in order
    pageLog,      \* pages received, in order: [problem, excode] node states
    genLog,       \* completion requests sent, in order: [prob, code]; code is "pending"
                  \* until answered and "failed" if the call failed
    loginLog,     \* login POSTs sent, in order: [student, cuname, client, status];
                  \* status is "pending" until answered, then "ok" or "failed"
    loggedIn,     \* positions of the students whose login POST has completed
    submitLog     \* run POSTs sent: [handle, id, code, cuname, client]

vars == <<problems, students, pc, i, j, k, solutions, published, client, remaining,
          handles, ustate, outcome, failure, fetchLog, pageLog, genLog, loginLog, loggedIn,
          submitLog>>

inputVars == <<problems, students>>
popVars == <<i, solutions, published, fetchLog, pageLog, genLog>>
loopVars == <<j, client, remaining, loginLog, loggedIn>>
taskVars == <<handles, ustate, submitLog>>

\* ---- helpers ----
SeqsUpTo(S, lo, hi) == UNION {[1..n -> S] : n \in lo..hi}

Range(s) == {s[n] : n \in DOMAIN s}

\* the empty HashMap
EmptyMap == [p \in {} |-> "none"]

\* HashMap::insert: the new value replaces an existing one
Insert_KeepFirst(m, key, val) ==
    [p \in (DOMAIN m) \cup {key} |-> IF p \in DOMAIN m THEN m[p] ELSE val]

Insert(m, key, val) == [p \in (DOMAIN m) \cup {key} |-> IF p = key THEN val ELSE m[p]]

\* ---- initial state: right after `let mut solutions = HashMap::new()` ----
Init ==
    /\ problems \in SeqsUpTo(ProbIds, 1, MaxInput)
    /\ students \in SeqsUpTo(CuNames, 0, MaxInput - 1)
    /\ Len(problems) + Len(students) <= MaxInput
    /\ Len(students) * Cardinality(Range(problems)) <= MaxTasks
    \* identifiers are opaque and only compared for equality: the first of each list is fixed
    /\ problems[1] = "p1"
    /\ students # <<>> => students[1] = "alice"
    /\ pc = "solve"
    /\ i = 1
    /\ j = 1
    /\ k = 1
    /\ solutions = EmptyMap
    /\ published = EmptyMap
    /\ client = 0
    /\ remaining = {}
    /\ handles = <<>>
    /\ ustate = <<>>
    /\ outcome = "running"
    /\ failure = "none"
    /\ fetchLog = <<>>
    /\ pageLog = <<>>
    /\ genLog = <<>>
    /\ loginLog = <<>>
    /\ loggedIn = {}
    /\ submitLog = {}

\* what dropping the runtime makes of a task: one that has not finished is
\* dropped and never runs again
Dropped(st) == IF st \in {"spawned", "inflight"} THEN "cancelled" ELSE st

\* main ends with result r (Ok, Err or a panic unwinding it): block_on returns
\* and the runtime created by #[tokio::main] is dropped
Return(r, why) ==
    /\ pc' = "exited"
    /\ outcome' = r
    /\ failure' = why
    /\ ustate' = [h \in DOMAIN ustate |-> Dropped(ustate[h])]

\* ---- solve_prob, called for problems[i] by the loop of main ----

\* the loop takes the next problem and solve_prob sends the GET
SendFetch_Reversed ==
    /\ pc = "solve"
    /\ i <= Len(problems)
    /\ fetchLog' = Append(fetchLog, problems[Len(problems) + 1 - i])
    /\ pc' = "fetching"
    /\ UNCHANGED <<inputVars, i, j, k, solutions, published, pageLog, genLog, loopVars,
                   taskVars, outcome, failure>>

SendFetch ==
    /\ pc = "solve"
    /\ i <= Len(problems)
    /\ fetchLog' = Append(fetchLog, problems[i])
    /\ pc' = "fetching"
    /\ UNCHANGED <<inputVars, i, j, k, solutions, published, pageLog, genLog, loopVars,
                   taskVars, outcome, failure>>

\* send() or text() returns an error: expect() panics
FetchFail ==
    /\ pc = "fetching"
    /\ Return("panic", "fetch")
    /\ UNCHANGED <<inputVars, popVars, j, k, loopVars, handles, submitLog>>

\* what the two selectors and the [0] indexing make of a page:
\* the statement node is looked up and read first, then the code node
\* ("missing": next() is None and expect() panics; "empty": the node has no
\* text, the collected Vec is empty and [0] panics)
ParsePage_StatementOnly(page) ==
    IF page.problem # "text" THEN "parse"
    ELSE "none"

ParsePage(page) ==
    IF page.problem # "text" THEN "parse"
    ELSE IF page.excode # "text" THEN "parse"
    ELSE "none"

\* the page arrives; it is parsed and, if both nodes are there, the chat
\* completion request is sent
FetchDone ==
    /\ pc = "fetching"
    /\ \E page \in [problem : NodeStates, excode : NodeStates] :
          /\ pageLog' = Append(pageLog, page)
          /\ IF ParsePage(page) = "none"
                THEN /\ genLog' = Append(genLog, [prob |-> problems[i], code |-> "pending"])
                     /\ pc' = "generating"
                     /\ UNCHANGED <<outcome, failure, ustate>>
                ELSE /\ Return("panic", ParsePage(page))
                     /\ UNCHANGED genLog
    /\ UNCHANGED <<inputVars, i, j, k, solutions, published, fetchLog, loopVars, handles, submitLog>>

\* the completion call errs, cannot be decoded or has no choices: unwrap() panics
GenFail_Placeholder ==
    /\ pc = "generating"
    /\ genLog' = [genLog EXCEPT ![Len(genLog)].code = "failed"]
    /\ solutions' = Insert(solutions, problems[i], "s1")
    /\ i' = i + 1
    /\ IF i = Len(problems)
          THEN /\ published' = solutions'
               /\ pc' = "students"
          ELSE /\ pc' = "solve"
               /\ UNCHANGED published
    /\ UNCHANGED <<inputVars, j, k, fetchLog, pageLog, loopVars, taskVars, outcome, failure>>

GenFail ==
    /\ pc = "generating"
    /\ genLog' = [genLog EXCEPT ![Len(genLog)].code = "failed"]
    /\ Return("panic", "generation")
    /\ UNCHANGED <<inputVars, i, solutions, published, fetchLog, pageLog, j, k, loopVars,
                   handles, submitLog>>

\* is problems[n] the last one of the loop
LastProblem_First(n) == n >= 1

LastProblem(n) == n = Len(problems)

\* the first choice is returned and inserted; after the last problem the map
\* is wrapped in the Arc
GenDone ==
    /\ pc = "generating"
    /\ \E code \in Codes :
          /\ genLog' = [genLog EXCEPT ![Len(genLog)].code = code]
          /\ solutions' = Insert(solutions, problems[i], code)
    /\ i' = i + 1
    /\ IF LastProblem(i)
          THEN /\ published' = solutions'
               /\ pc' = "students"
          ELSE /\ pc' = "solve"
               /\ UNCHANGED published
    /\ UNCHANGED <<inputVars, j, k, fetchLog, pageLog, loopVars, taskVars, outcome, failure>>

\* ---- the loop over config.students ----

\* the client built for the student at position n: a new cookie store each time
NewClient_Shared(n) == 1

NewClient(n) == n

\* ClientBuilder::build() succeeds
BuildClient ==
    /\ pc = "students"
    /\ j <= Len(students)
    /\ client' = NewClient(j)
    /\ pc' = "login"
    /\ UNCHANGED <<inputVars, popVars, j, k, remaining, loginLog, loggedIn, taskVars,
                   outcome, failure>>

\* ClientBuilder::build() fails: expect() panics
BuildClientFail ==
    /\ pc = "students"
    /\ j <= Len(students)
    /\ Return("panic", "client")
    /\ UNCHANGED <<inputVars, popVars, j, k, loopVars, handles, submitLog>>

\* login() sends the POST with the student's cuname and password
SendLogin_FirstStudent ==
    /\ pc = "login"
    /\ loginLog' = Append(loginLog, [student |-> 1, cuname |-> students[1], client |-> client,
                                     status |-> "pending"])
    /\ pc' = "login_wait"
    /\ UNCHANGED <<inputVars, popVars, j, k, client, remaining, loggedIn, taskVars,
                   outcome, failure>>

SendLogin_NotAwaited ==
    /\ pc = "login"
    /\ loginLog' = Append(loginLog, [student |-> j, cuname |-> students[j], client |-> client,
                                     status |-> "pending"])
    /\ remaining' = DOMAIN published
    /\ pc' = "spawn"
    /\ UNCHANGED <<inputVars, popVars, j, k, client, loggedIn, taskVars, outcome, failure>>

SendLogin ==
    /\ pc = "login"
    /\ loginLog' = Append(loginLog, [student |-> j, cuname |-> students[j], client |-> client,
                                     status |-> "pending"])
    /\ pc' = "login_wait"
    /\ UNCHANGED <<inputVars, popVars, j, k, client, remaining, loggedIn, taskVars,
                   outcome, failure>>

\* the POST could not be sent: `?` returns the error from main
LoginFail_Ignored ==
    /\ pc = "login_wait"
    /\ loginLog' = [loginLog EXCEPT ![Len(loginLog)].status = "failed"]
    /\ remaining' = DOMAIN published
    /\ pc' = "spawn"
    /\ UNCHANGED <<inputVars, popVars, j, k, client, loggedIn, taskVars, outcome, failure>>

LoginFail ==
    /\ pc = "login_wait"
    /\ loginLog' = [loginLog EXCEPT ![Len(loginLog)].status = "failed"]
    /\ Return("err", "login")
    /\ UNCHANGED <<inputVars, popVars, j, k, client, remaining, loggedIn, handles, submitLog>>

\* the POST completed (its status is not inspected); the map is cloned for the spawn loop
LoginDone ==
    /\ pc = "login_wait"
    /\ loginLog' = [loginLog EXCEPT ![Len(loginLog)].status = "ok"]
    /\ loggedIn' = loggedIn \cup {j}
    /\ remaining' = DOMAIN published
    /\ pc' = "spawn"
    /\ UNCHANGED <<inputVars, popVars, j, k, client, taskVars, outcome, failure>>

\* what the task spawned for entry p of the map captures
Captured_OtherEntry(p) ==
    [student |-> j, cuname |-> students[j], prob |-> p,
     code |-> published[CHOOSE q \in DOMAIN published : q # p \/ DOMAIN published = {p}],
     client |-> client]

Captured_FirstStudent(p) ==
    [student |-> j, cuname |-> students[1], prob |-> p, code |-> published[p],
     client |-> client]

Captured(p) ==
    [student |-> j, cuname |-> students[j], prob |-> p, code |-> published[p],
     client |-> client]

\* one iteration of `for (prob, solution) in solutions`: the HashMap yields its
\* entries in an arbitrary order; after the last entry the student loop goes on
SpawnUnit_OneAtATime ==
    /\ pc = "spawn"
    /\ \A h \in DOMAIN handles : ustate[h] \in {"done", "failed"}
    /\ \E p \in remaining :
          /\ handles' = Append(handles, Captured(p))
          /\ ustate' = Append(ustate, "spawned")
          /\ remaining' = remaining \ {p}
          /\ IF remaining' = {}
                THEN j' = j + 1 /\ pc' = "students"
                ELSE UNCHANGED <<j, pc>>
    /\ UNCHANGED <<inputVars, popVars, k, client, loginLog, loggedIn, submitLog,
                   outcome, failure>>

SpawnUnit ==
    /\ pc = "spawn"
    /\ \E p \in remaining :
          /\ handles' = Append(handles, Captured(p))
          /\ ustate' = Append(ustate, "spawned")
          /\ remaining' = remaining \ {p}
          /\ IF remaining' = {}
                THEN j' = j + 1 /\ pc' = "students"
                ELSE UNCHANGED <<j, pc>>
    /\ UNCHANGED <<inputVars, popVars, k, client, loginLog, loggedIn, submitLog,
                   outcome, failure>>

\* the student loop is over
StudentsDone_NoJoin ==
    /\ pc = "students"
    /\ j > Len(students)
    /\ Return("ok", "none")
    /\ UNCHANGED <<inputVars, popVars, j, k, loopVars, handles, submitLog>>

StudentsDone ==
    /\ pc = "students"
    /\ j > Len(students)
    /\ pc' = "join"
    /\ UNCHANGED <<inputVars, popVars, j, k, loopVars, taskVars, outcome, failure>>

\* ---- the spawned tasks: run_code ----

\* the runtime polls task h for the first time: run_code sends the POST
UnitStart(h) ==
    /\ pc # "exited"
    /\ ustate[h] = "spawned"
    /\ ustate' = [ustate EXCEPT ![h] = "inflight"]
    /\ submitLog' = submitLog \cup
          {[handle |-> h, id |-> handles[h].prob, code |-> handles[h].code,
            cuname |-> handles[h].cuname, client |-> handles[h].client]}
    /\ UNCHANGED <<inputVars, popVars, pc, j, k, loopVars, handles, outcome, failure>>

\* the POST completed (the response is not looked at)
UnitDone(h) ==
    /\ pc # "exited"
    /\ ustate[h] = "inflight"
    /\ ustate' = [ustate EXCEPT ![h] = "done"]
    /\ UNCHANGED <<inputVars, popVars, pc, j, k, loopVars, handles, submitLog, outcome, failure>>

\* the POST could not be sent: expect() panics inside the task, which the
\* runtime turns into a JoinError of its handle
UnitFail(h) ==
    /\ pc # "exited"
    /\ ustate[h] = "inflight"
    /\ ustate' = [ustate EXCEPT ![h] = "failed"]
    /\ UNCHANGED <<inputVars, popVars, pc, j, k, loopVars, handles, submitLog, outcome, failure>>

\* ---- the join loop ----

\* handle k is awaited and its task has finished normally
JoinOk ==
    /\ pc = "join"
    /\ k <= Len(handles)
    /\ ustate[k] = "done"
    /\ k' = k + 1
    /\ UNCHANGED <<inputVars, popVars, pc, j, loopVars, taskVars, outcome, failure>>

\* handle k is awaited and its task has panicked: `?` returns the JoinError
JoinErr_Ignored ==
    /\ pc = "join"
    /\ k <= Len(handles)
    /\ ustate[k] = "failed"
    /\ k' = k + 1
    /\ UNCHANGED <<inputVars, popVars, pc, j, loopVars, taskVars, outcome, failure>>

JoinErr ==
    /\ pc = "join"
    /\ k <= Len(handles)
    /\ ustate[k] = "failed"
    /\ Return("err", "submit")
    /\ UNCHANGED <<inputVars, popVars, j, k, loopVars, handles, submitLog>>

\* every handle has been awaited: main returns Ok(())
Finish ==
    /\ pc = "join"
    /\ k > Len(handles)
    /\ Return("ok", "none")
    /\ UNCHANGED <<inputVars, popVars, j, k, loopVars, handles, submitLog>>

Next ==
    \/ SendFetch
    \/ FetchFail
    \/ FetchDone
    \/ GenFail
    \/ GenDone
    \/ BuildClient
    \/ BuildClientFail
    \/ SendLogin
    \/ LoginFail
    \/ LoginDone
    \/ SpawnUnit
    \/ StudentsDone
    \/ \E h \in DOMAIN handles : UnitStart(h)
    \/ \E h \in DOMAIN handles : UnitDone(h)
    \/ \E h \in DOMAIN handles : UnitFail(h)
    \/ JoinOk
    \/ JoinErr
    \/ Finish

Spec == Init /\ [][Next]_vars

\* the steps of the main task and those of the spawned tasks
MainStep ==
    \/ SendFetch
    \/ FetchFail
    \/ FetchDone
    \/ GenFail
    \/ GenDone
    \/ BuildClient
    \/ BuildClientFail
    \/ SendLogin
    \/ LoginFail
    \/ LoginDone
    \/ SpawnUnit
    \/ StudentsDone
    \/ JoinOk
    \/ JoinErr
    \/ Finish

UnitStep == \E h \in DOMAIN handles : UnitStart(h) \/ UnitDone(h) \/ UnitFail(h)

\* the runs of Spec with one input less
FairInit == Init /\ Len(problems) + Len(students) <= MaxInput - 1

\* the runtime keeps polling the main task and the spawned tasks, and every
\* network call is answered or fails
FairSpec == FairInit /\ [][Next]_vars /\ WF_vars(MainStep) /\ WF_vars(UnitStep)

TypeOK ==
    /\ pc \in {"solve", "fetching", "generating", "students", "login", "login_wait",
               "spawn", "join", "exited"}
    /\ outcome \in {"running", "ok", "err", "panic"}
    /\ failure \in {"none", "fetch", "parse", "generation", "client", "login", "submit"}
    /\ DOMAIN ustate = DOMAIN handles
    /\ \A h \in DOMAIN ustate : ustate[h] \in {"spawned", "inflight", "done", "failed", "cancelled"}

\* ---- the config commands that run before a solve ----

\* longest student list the config commands build
MaxStored == MaxInput - 2

\* `add`: the new student is pushed onto the stored list
Add_Dedup(list, cuname) == IF cuname \in Range(list) THEN list ELSE Append(list, cuname)

Add(list, cuname) == Append(list, cuname)

\* `remove`: retain() keeps the students with another cuname
Remove(list, cuname) ==
    LET Keep(x) == x # cuname
    IN SelectSeq(list, Keep)

\* the state of a fresh installation: confy::load yields MyConfig::default()
ConfigInit ==
    /\ problems = <<>>
    /\ students = <<>>
    /\ pc = "config"
    /\ i = 1
    /\ j = 1
    /\ k = 1
    /\ solutions = EmptyMap
    /\ published = EmptyMap
    /\ client = 0
    /\ remaining = {}
    /\ handles = <<>>
    /\ ustate = <<>>
    /\ outcome = "running"
    /\ failure = "none"
    /\ fetchLog = <<>>
    /\ pageLog = <<>>
    /\ genLog = <<>>
    /\ loginLog = <<>>
    /\ loggedIn = {}
    /\ submitLog = {}

\* batgpt add <cuname> <pass>
AddStudent(cuname) ==
    /\ pc = "config"
    /\ Len(students) < MaxStored
    /\ students' = Add(students, cuname)
    /\ UNCHANGED <<problems, pc, popVars, j, k, loopVars, taskVars, outcome, failure>>

\* batgpt remove <cuname>
RemoveStudent(cuname) ==
    /\ pc = "config"
    /\ students' = Remove(students, cuname)
    /\ UNCHANGED <<problems, pc, popVars, j, k, loopVars, taskVars, outcome, failure>>

\* batgpt solve <prob>...: the stored students are loaded and the solve branch starts
StartSolve ==
    /\ pc = "config"
    /\ problems' \in SeqsUpTo(ProbIds, 1, MaxInput - 1)
    /\ Len(problems') + Len(students) <= MaxInput - 1
    /\ problems'[1] = "p1"
    /\ pc' = "solve"
    /\ UNCHANGED <<students, popVars, j, k, loopVars, taskVars, outcome, failure>>

ConfigNext ==
    \/ \E cuname \in CuNames : AddStudent(cuname)
    \/ \E cuname \in CuNames : RemoveStudent(cuname)
    \/ StartSolve
    \/ Next

ConfigSpec == ConfigInit /\ [][ConfigNext]_vars

\* ---- properties ----

\* number of entries of log s that are about problem p
CountOf(s, p) == Cardinality({n \in DOMAIN s : s[n] = p})

GenProbs == [n \in DOMAIN genLog |-> genLog[n].prob]

\* every requested problem has been fetched and generated and is in the table
AllSolved ==
    /\ Len(fetchLog) = Len(problems)
    /\ Len(genLog) = Len(problems)
    /\ \A n \in DOMAIN genLog : genLog[n].code \in Codes
    /\ \A n \in DOMAIN problems : problems[n] \in DOMAIN solutions

\* C1: no login and no submit call is issued before every requested problem
\* has been fetched, generated and recorded in the solution table; from the
\* first login on, the completion service is not called any more (the number
\* of its calls stays at the number of requested problems).
C1_SolveBeforeSubmit ==
    (loginLog # <<>> \/ handles # <<>> \/ submitLog # {}) => AllSolved

C1_Witness ==
    /\ Len(problems) = 2
    /\ submitLog # {}
    /\ AllSolved

\* C2: every requested identifier is fetched at most once and generated at
\* most once, and once the table is published the number of completion calls
\* is the number of distinct requested identifiers.
C2_OneGenerationPerExercise ==
    /\ \A p \in Range(problems) : CountOf(fetchLog, p) <= 1 /\ CountOf(GenProbs, p) <= 1
    /\ pc \in {"students", "login", "login_wait", "spawn", "join"}
          => Len(genLog) = Cardinality(Range(problems))

\* the text the completion service returned last for problem p
LastGenerated(p) ==
    LET ns == {n \in DOMAIN genLog : genLog[n].prob = p /\ genLog[n].code \in Codes}
    IN genLog[CHOOSE n \in ns : \A m \in ns : m <= n].code

\* the run POSTs sent for the student at position s and problem p
SubmitsOf(s, p) == {r \in submitLog : handles[r.handle].student = s /\ r.id = p}

\* C3: a run that ends with Ok has sent exactly N x M run POSTs for N students
\* and M distinct problems, one per (student, problem), each with the
\* student's cuname, the problem's id and the text generated for the problem.
C3_AllPairsSubmitted ==
    outcome = "ok" =>
        /\ Cardinality(submitLog) = Len(students) * Cardinality(Range(problems))
        /\ \A s \in DOMAIN students : \A p \in Range(problems) :
              /\ Cardinality(SubmitsOf(s, p)) = 1
              /\ \A r \in SubmitsOf(s, p) :
                    r.cuname = students[s] /\ r.code = LastGenerated(p)

C3_Witness ==
    /\ outcome = "ok"
    /\ Len(students) = 2
    /\ students[1] # students[2]
    /\ Cardinality(Range(problems)) = 2
    /\ \E r1, r2 \in submitLog : r1.code # r2.code

\* a page without the statement node or without the starter-code node
Lacks(page) == page.problem = "missing" \/ page.excode = "missing"

\* C4 as stated: when a fetched page lacks one of the two nodes the run has
\* aborted with a parse failure and no completion call and no submit call
\* has been made at all.
C4_NoCallAtAll ==
    \A n \in DOMAIN pageLog : Lacks(pageLog[n]) =>
        /\ outcome = "panic" /\ failure = "parse"
        /\ genLog = <<>>
        /\ submitLog = {}

\* C4 amended: when the page of the n-th requested problem lacks one of the
\* two nodes the run has aborted with a parse failure, no completion call has
\* been made for that problem or a later one (the n-1 calls for the problems
\* before it have been made and answered), and no login or submit call has
\* been made.
C4_ParseFailureAborts ==
    \A n \in DOMAIN pageLog : Lacks(pageLog[n]) =>
        /\ outcome = "panic" /\ failure = "parse"
        /\ Len(genLog) = n - 1
        /\ \A m \in DOMAIN genLog : genLog[m].code \in Codes
        /\ loginLog = <<>> /\ handles = <<>> /\ submitLog = {}

C4_Witness ==
    /\ Len(pageLog) = 2
    /\ pageLog[2].problem = "text" /\ pageLog[2].excode = "missing"
    /\ Len(genLog) = 1
    /\ pc = "exited"

\* C5: when the completion call of a requested problem fails the run aborts
\* and no login and no submit call is made, also for problems generated
\* before.
C5_GenerationFailureAborts ==
    (\E n \in DOMAIN genLog : genLog[n].code = "failed") =>
        /\ pc = "exited" /\ outcome = "panic" /\ failure = "generation"
        /\ loginLog = <<>> /\ handles = <<>> /\ submitLog = {}

C5_Witness ==
    /\ Len(genLog) = 2
    /\ genLog[1].code \in Codes
    /\ genLog[2].code = "failed"
    /\ students # <<>>
    /\ pc = "exited"

\* C6: a run POST of a student is sent only after the login POST of that
\* student has completed.  (That run POSTs of different students and
\* problems complete in any order shows in C6_Witness: the task of a later
\* student and another problem is done while an earlier one has not started.)
C6_LoginBeforeSubmit ==
    \A r \in submitLog : handles[r.handle].student \in loggedIn

C6_Witness ==
    \E h1, h2 \in DOMAIN handles :
        /\ handles[h1].student < handles[h2].student
        /\ handles[h1].prob # handles[h2].prob
        /\ ustate[h1] = "spawned"
        /\ ustate[h2] = "done"

\* C7: when main has returned, with Ok, with the error of a login or with
\* the JoinError of a failed task, no spawned task was left unfinished.
C7_AllJoinedAtReturn ==
    (pc = "exited" /\ failure \in {"none", "login", "submit"}) =>
        \A h \in DOMAIN handles : ustate[h] # "cancelled"

\* C8: when the run POST of a task failed and main returned its JoinError,
\* every other spawned task still sends its run POST and finishes.
C8_OthersNotCancelled ==
    (pc = "exited" /\ failure = "submit") =>
        \A h \in DOMAIN handles :
            /\ ustate[h] \in {"done", "failed"}
            /\ \E r \in submitLog : r.handle = h

\* C9: if the run POST of any task failed, main does not return Ok; a run
\* POST that was sent stays sent and a task that is done stays done.
C9_FailureReported ==
    /\ []((\E h \in DOMAIN handles : ustate[h] = "failed") => outcome # "ok")
    /\ [][/\ submitLog \subseteq submitLog'
          /\ \A h \in DOMAIN ustate : ustate[h] = "done" => ustate'[h] = "done"]_vars

C9_Witness ==
    /\ pc = "exited"
    /\ outcome = "err"
    /\ failure = "submit"
    /\ \E h1, h2 \in DOMAIN handles :
          h1 < h2 /\ ustate[h1] = "done" /\ ustate[h2] = "failed"

\* the logins made for the student at position s
LoginsOf(s) == {n \in DOMAIN loginLog : loginLog[n].student = s}

\* C10: every run POST of a student goes through the client that was built
\* and logged in for that student, and through no client that logged in
\* another student.
C10_SessionIsolation ==
    \A r \in submitLog :
        /\ \E n \in LoginsOf(handles[r.handle].student) : loginLog[n].client = r.client
        /\ \A n \in DOMAIN loginLog :
              loginLog[n].client = r.client => loginLog[n].student = handles[r.handle].student

C10_Witness ==
    \E r1, r2 \in submitLog :
        /\ handles[r1.handle].student # handles[r2.handle].student
        /\ r1.client # r2.client
        /\ ustate[r1.handle] = "inflight"
        /\ ustate[r2.handle] = "inflight"

\* C11: the solution table is not written after the first login or run POST,
\* and every spawned task carries, and every run POST sends, for its problem
\* the text the published table holds for it.
C11_TableFrozen ==
    /\ [](/\ \A h \in DOMAIN handles : handles[h].code = published[handles[h].prob]
          /\ \A r \in submitLog : r.code = published[r.id])
    /\ [][(loginLog # <<>> \/ submitLog # {}) =>
              (solutions' = solutions /\ published' = published)]_vars

C11_Witness ==
    /\ pc = "join"
    /\ \E r1, r2 \in submitLog :
          /\ r1.id # r2.id
          /\ r1.code # r2.code
          /\ handles[r1.handle].student # handles[r2.handle].student

\* the positions at which cuname occurs in the student list
EntriesOf(cuname) == {s \in DOMAIN students : students[s] = cuname}

\* C12: `add` appends the cuname it is given whether or not it is already
\* stored, and a run that ends with Ok has made, for a cuname stored k times,
\* k login POSTs and k run POSTs per problem.
C12_DuplicatesKept ==
    /\ (pc = "config" /\ Len(students) < MaxStored) =>
          \A cuname \in CuNames :
              ENABLED (AddStudent(cuname) /\ students' = Append(students, cuname))
    /\ outcome = "ok" =>
          \A cuname \in CuNames :
              /\ Cardinality({n \in DOMAIN loginLog : loginLog[n].cuname = cuname})
                    = Cardinality(EntriesOf(cuname))
              /\ \A p \in Range(problems) :
                    Cardinality({r \in submitLog : r.cuname = cuname /\ r.id = p})
                        = Cardinality(EntriesOf(cuname))

C12_Witness ==
    /\ outcome = "ok"
    /\ Len(students) = 2
    /\ students[1] = students[2]
    /\ Len(loginLog) = 2
    /\ \E r1, r2 \in submitLog :
          r1.handle # r2.handle /\ r1.cuname = r2.cuname /\ r1.id = r2.id

\* C13 as stated: no run POST is sent before the login POST of every student
\* of the list has completed.
C13_AllLoginsFirst ==
    submitLog # {} => loggedIn = DOMAIN students

\* C13 amended: a run POST of the student at position s is sent only after
\* the login POSTs of the students at positions 1..s have completed; those of
\* later students may still be to come.
C13_EarlierLoginsFirst ==
    \A r \in submitLog : \A s \in 1..handles[r.handle].student : s \in loggedIn

C13_Witness ==
    /\ Len(students) = 3
    /\ loggedIn = {1, 2}
    /\ pc = "login_wait"
    /\ \E r \in submitLog : handles[r.handle].student = 2

\* login POSTs that have been sent and not answered
LoginsInFlight == {n \in DOMAIN loginLog : loginLog[n].status = "pending"}

\* C14: the n-th login POST is the one of the n-th student, at most one is
\* unanswered at any time, and a run that ends with Ok has made exactly one
\* per student.
C14_SequentialLogins ==
    /\ \A n \in DOMAIN loginLog :
          loginLog[n].student = n /\ loginLog[n].cuname = students[n]
    /\ Cardinality(LoginsInFlight) <= 1
    /\ \A n \in LoginsInFlight : n = Len(loginLog)
    /\ outcome = "ok" =>
          /\ Len(loginLog) = Len(students)
          /\ \A n \in DOMAIN loginLog : loginLog[n].status = "ok"

C14_Witness ==
    /\ outcome = "ok"
    /\ Len(loginLog) = 3
    /\ students[2] # students[3]

\* C15: when the login POST of the student at position s could not be sent,
\* main has returned an error, that login was made once, no login was made
\* for a later student and no task was spawned and no run POST sent for the
\* student at s or a later one.
C15_LoginFailureStops ==
    \A n \in DOMAIN loginLog : loginLog[n].status = "failed" =>
        /\ pc = "exited" /\ outcome = "err" /\ failure = "login"
        /\ n = Len(loginLog)
        /\ Cardinality(LoginsOf(loginLog[n].student)) = 1
        /\ \A h \in DOMAIN handles : handles[h].student < loginLog[n].student
        /\ \A r \in submitLog : handles[r.handle].student < loginLog[n].student

C15_Witness ==
    /\ Len(students) = 3
    /\ Len(loginLog) = 2
    /\ loginLog[2].status = "failed"
    /\ \E r \in submitLog : handles[r.handle].student = 1

\* C16: inside the spawn loop the next task can always be spawned, whatever
\* the state of the tasks spawned before, and the loop goes on to the next
\* student in the same way; nothing caps the number of unfinished tasks.
\* (C16_Witness: the tasks of all students and problems in flight at once.)
C16_SpawnNeverWaits ==
    /\ pc = "spawn" => ENABLED SpawnUnit
    /\ (pc = "students" /\ j <= Len(students)) => ENABLED BuildClient

C16_Witness ==
    /\ Len(students) = 2
    /\ Cardinality(Range(problems)) = 2
    /\ Len(handles) = 4
    /\ \A h \in DOMAIN handles : ustate[h] = "inflight"

\* C17: main does not return while a network call that was sent is still
\* unanswered: no GET, completion call or login POST is pending when main has
\* returned (with Ok, a login error or a JoinError), and no task whose run
\* POST was sent is dropped unfinished.
C17_NoReturnWhileCallPending ==
    (pc = "exited" /\ failure \in {"none", "login", "submit"}) =>
        /\ Len(pageLog) = Len(fetchLog)
        /\ \A n \in DOMAIN genLog : genLog[n].code # "pending"
        /\ LoginsInFlight = {}
        /\ \A r \in submitLog : ustate[r.handle] # "cancelled"

\* a network call returned an error
NetworkError ==
    \/ failure \in {"fetch", "generation", "login", "submit"}
    \/ \E h \in DOMAIN handles : ustate[h] = "failed"

\* C18 as stated (its final result): a run in which no network call failed
\* ends with Ok.
C18_OkUnlessNetworkError ==
    (pc = "exited" /\ ~NetworkError) => outcome = "ok"

\* C18 amended: under fair scheduling main eventually returns Ok unless a
\* network call fails, a fetched page lacks the text of one of its two nodes
\* or a client cannot be built; when it returns Ok every problem is fetched
\* and generated, every student logged in and every task spawned and done.
C18_EventuallyOk ==
    /\ <>(outcome = "ok" \/ NetworkError \/ failure \in {"parse", "client"})
    /\ [](outcome = "ok" =>
            /\ AllSolved
            /\ loggedIn = DOMAIN students
            /\ Len(handles) = Len(students) * Cardinality(Range(problems))
            /\ \A h \in DOMAIN handles : ustate[h] = "done")

C18_Witness ==
    /\ outcome = "ok"
    /\ Len(students) = 2
    /\ Len(handles) = 2
    /\ \A h \in DOMAIN handles : ustate[h] = "done"

\* the run POSTs of the student at position s
SubmitsOfStudent(s) == {r \in submitLog : handles[r.handle].student = s}

\* C19: the table holds for every problem the text generated last for it,
\* also when the problem was requested more than once, and in a run that
\* ends with Ok every student has sent, for a problem requested more than
\* once, one run POST with that text, and as many run POSTs as there are
\* distinct problems.
C19_LastSolutionWins ==
    /\ \A p \in DOMAIN solutions : solutions[p] = LastGenerated(p)
    /\ outcome = "ok" =>
          \A s \in DOMAIN students :
              /\ Cardinality(SubmitsOfStudent(s)) = Cardinality(Range(problems))
              /\ \A p \in Range(problems) : CountOf(problems, p) >= 2 =>
                    /\ Cardinality(SubmitsOf(s, p)) = 1
                    /\ \A r \in SubmitsOf(s, p) : r.code = LastGenerated(p)

C19_Witness ==
    /\ outcome = "ok"
    /\ problems = <<"p1", "p2", "p1">>
    /\ genLog[1].code # genLog[3].code
    /\ students # <<>>
    /\ \E r \in submitLog : r.id = "p1" /\ r.code = genLog[3].code

\* GETs that have been sent and neither answered nor failed
FetchesInFlight == IF pc = "fetching" THEN 1 ELSE 0

\* completion calls that have been sent and not answered
GensInFlight == Cardinality({n \in DOMAIN genLog : genLog[n].code = "pending"})

\* C20: GETs and completion calls follow the order of the requested list, the
\* GET of a problem is sent only after the completion call of the problem
\* before it was answered, at most one of these calls is in flight, and after
\* a failed fetch, parse or generation no call was made for a later problem.
C20_SequentialFailFast ==
    /\ Len(fetchLog) <= Len(problems)
    /\ \A n \in DOMAIN fetchLog : fetchLog[n] = problems[n]
    /\ \A n \in DOMAIN genLog : genLog[n].prob = problems[n]
    /\ Len(genLog) <= Len(fetchLog) /\ Len(fetchLog) <= Len(genLog) + 1
    /\ \A n \in DOMAIN fetchLog : \A m \in 1..(n - 1) :
          m \in DOMAIN genLog /\ genLog[m].code \in Codes
    /\ FetchesInFlight + GensInFlight <= 1
    /\ failure \in {"fetch", "parse", "generation"} =>
          /\ pc = "exited"
          /\ Len(fetchLog) = i
          /\ Len(genLog) = (IF failure = "generation" THEN i ELSE i - 1)

C20_Witness ==
    /\ Len(problems) = 3
    /\ problems[2] # problems[3]
    /\ failure = "generation"
    /\ i = 2
    /\ Len(fetchLog) = 2

====
